---- MODULE Spec2Model ----
(***************************************************************************)
(* Multi-turn conversation collators and the mixture-loss trainer of       *)
(* src/finetune.py.                                                        *)
(*                                                                         *)
(* A text is a sequence of words; the tokenizer maps every word to one     *)
(* token id and every special token to its own id.  A Python dict is a     *)
(* function whose DOMAIN is the set of its keys.  A Python list or a 1-D   *)
(* tensor is a sequence, a padded 2-D tensor a sequence of rows.           *)
(***************************************************************************)
EXTENDS Integers, Sequences, FiniteSets, TLC

\* ------------------------------------------------------------------ bounds
MaxCallSize == 4     \* examples plus turns (of all columns) of one collator call
MaxCalls == 4        \* compute_loss and log calls in one run

\* --------------------------------------------------------------- constants
IGNORE_INDEX == -100

\* Token ids of the Llama-3 tokenizer the collators are written for.
bos_token_id == 128000
end_of_text_id == 128001
pad_token_id == 128004
start_header_id == 128006
end_header_id == 128007
eot_id == 128009
newlines_id == 271

\* ------------------------------------------------------------------ inputs
Words == {"hi", "yo"}
UserContents == {<<>>, <<"hi">>}
AssistantContents == {<<"yo">>, <<"yo", "hi">>}
PromptContents == {<<"hi">>}
TargetMaxLens == {2}

NoDict == [k \in {} |-> 0]

Min(a, b) == IF a <= b THEN a ELSE b
Max(a, b) == IF a >= b THEN a ELSE b

\* ---------------------------------------------------------------- tokenizer
WordId(w) == CASE w = "hi" -> 6151
               [] w = "yo" -> 16417
               [] w = "user" -> 882
               [] w = "assistant" -> 78191
               [] OTHER -> 9125

RECURSIVE Concat(_)
Concat(ss) == IF ss = <<>> THEN <<>> ELSE Head(ss) \o Concat(Tail(ss))

Ones(n) == [i \in 1..n |-> 1]
Ignored(n) == [i \in 1..n |-> IGNORE_INDEX]

\* tokenizer(text, add_special_tokens=False): one id per word.
Encode(content) == [i \in 1..Len(content) |-> WordId(content[i])]

\* Variant: no truncation.
EncodeTargetWhole(content, max_length) == Encode(content) \o <<eot_id>>

\* tokenizer(f"{content}{eos_token}", max_length=n, truncation=True,
\*           add_special_tokens=False)['input_ids']
EncodeTarget(content, max_length) ==
    LET full == Encode(content) \o <<eot_id>>
    IN SubSeq(full, 1, Min(Len(full), max_length))

RenderTurn(turn) ==
    <<start_header_id, WordId(turn.role), end_header_id, newlines_id>>
        \o Encode(turn.content) \o <<eot_id>>

\* tokenizer.apply_chat_template(messages, tokenize=True,
\*     add_generation_prompt=gen)['input_ids'] with the Llama-3 template: the
\* BOS token is emitted with the first message.
apply_chat_template(messages, add_generation_prompt) ==
    (IF messages = <<>> THEN <<>> ELSE <<bos_token_id>>)
        \o Concat([i \in 1..Len(messages) |-> RenderTurn(messages[i])])
        \o (IF add_generation_prompt
               THEN <<start_header_id, WordId("assistant"), end_header_id, newlines_id>>
               ELSE <<>>)

\* output['input_ids'][1:]
Rest(s) == IF s = <<>> THEN <<>> ELSE Tail(s)

\* ------------------------------------------------------------ pad_sequence
RECURSIVE MaxLen(_)
MaxLen(rows) == IF rows = <<>> THEN 0 ELSE Max(Len(Head(rows)), MaxLen(Tail(rows)))

PadRow(row, width, padding_value) ==
    [j \in 1..width |-> IF j <= Len(row) THEN row[j] ELSE padding_value]

\* Variant: the rows are stacked as they are.
pad_sequence_unpadded(rows, padding_value) == rows

pad_sequence(rows, padding_value) ==
    [r \in 1..Len(rows) |-> PadRow(rows[r], MaxLen(rows), padding_value)]

\* ------------------------------------------------------- examples of a call
Turns ==
    [role : {"user"}, content : UserContents]
        \cup [role : {"assistant"}, content : AssistantContents]
        \cup {[role |-> "system", content |-> <<"hi">>]}

PromptTurns == [role : {"user", "assistant"}, content : PromptContents]

ConvsOfLen(n) == [1..n -> Turns]
PromptsOfLen(n) == [1..n -> PromptTurns]

\* Examples of DataCollatorForMultiTurnCausalLM with s turns in all: a 'conv'
\* column and, for the 'conv-stage2_w_prompt' format, a 'prompt' column.
SingleExamples(s) ==
    {[conv |-> c] : c \in ConvsOfLen(s)}
        \cup UNION {{[prompt |-> p, conv |-> c] :
                        p \in PromptsOfLen(k), c \in ConvsOfLen(s - k)} : k \in 0..s}

\* Examples of DataCollatorForMultiTurnMixtureTraining with s turns in all.
MixtureExamples(s) ==
    UNION {{[stage1_conv |-> a, stage2_conv |-> b] :
                a \in ConvsOfLen(k), b \in ConvsOfLen(s - k)} : k \in 0..s}
        \cup UNION {{[prompt |-> p, stage1_conv |-> <<>>, stage2_conv |-> b] :
                p \in PromptsOfLen(k), b \in ConvsOfLen(s - k)} : k \in 0..s}

\* Non-empty batches of size at most budget, an example counting for one
\* plus the number of its turns.
RECURSIVE BatchesWithin(_, _)
BatchesWithin(kind, budget) ==
    {<<>>} \cup
    UNION {{<<e>> \o rest :
                e \in (IF kind = "single" THEN SingleExamples(s)
                                          ELSE MixtureExamples(s)),
                rest \in BatchesWithin(kind, budget - 1 - s)} : s \in 0..(budget - 1)}

SingleBatches == BatchesWithin("single", MaxCallSize) \ {<<>>}
MixtureBatches == BatchesWithin("mixture", MaxCallSize) \ {<<>>}

\* ------------------------------------------------------------------- state
VARIABLES
    W_PROMPT_RANDOMIZE,    \* module-level flag
    tokenizer,             \* [has_pad_token]: whether tokenizer._pad_token is set
    target_max_len,        \* field of both collators
    pc,                    \* position of the collator call in progress
    collator,              \* "single", "mixture" or "none"
    instances,             \* argument of the call
    input_column_name,     \* column the running pass reads
    ei, ti,                \* index of the current example, of the next turn
    input_ids, attention_mask, labels,                  \* per-example lists
    batch_input_ids, batch_attention_mask, batch_labels, \* per-pass lists
    stage2_dict,           \* result of the first pass of the mixture collator
    ret,                   \* value returned by the call
    raised,                \* exception that ended the call, or "none"
    origin, batch_origin, ret_origin, \* history: what contributed each position
    stage2_ratio,          \* args.stage2_ratio, a rational <<numerator, denominator>>
    class_attrs,           \* the three lists of the class MixtureTrainer
    inst_attrs,            \* per trainer: the attributes set on the instance
    forwards,              \* forward passes of the latest compute_loss, in order
    result,                \* what the latest trainer call returned or raised
    log_history,           \* records handed to Seq2SeqTrainer.log, in order
    calls,                 \* number of trainer calls made
    since_log,             \* history: per trainer, entries appended since its last log
    flushed,               \* history: per trainer, since_log at its latest log call
    called,                \* history: the latest trainer call and its arguments
    dataset_format,        \* args.dataset_format
    mydataset,             \* AgentBenchDataset: its records and its prompt method
    dataset,               \* columns of dataset['train'], once built
    data_raised            \* exception that ended make_data_module, or "none"

dvars == <<dataset_format, mydataset, dataset, data_raised>>

cvars == <<W_PROMPT_RANDOMIZE, tokenizer, target_max_len, pc, collator, instances,
           input_column_name, ei, ti, input_ids, attention_mask, labels,
           batch_input_ids, batch_attention_mask, batch_labels, stage2_dict,
           ret, raised, origin, batch_origin, ret_origin>>

tvars == <<stage2_ratio, class_attrs, inst_attrs, forwards, result, log_history,
           calls, since_log, flushed, called>>

vars == <<cvars, tvars, dvars>>

\* What no collator call and no trainer call writes.
config == <<W_PROMPT_RANDOMIZE, tokenizer, target_max_len, dvars>>
call == <<collator, instances>>
row == <<input_ids, attention_mask, labels, origin>>
batch == <<batch_input_ids, batch_attention_mask, batch_labels, batch_origin>>

\* History values: the source of one position.
FromBos == [src |-> "bos", turn |-> 0, role |-> "none"]
FromPrompt == [src |-> "prompt", turn |-> 0, role |-> "none"]
FromTurn(column, t, role) == [src |-> column, turn |-> t, role |-> role]
Repeat(x, n) == [i \in 1..n |-> x]

Trainers == {"t1", "t2"}
LossSeries == {"stage1_loss", "stage2_loss", "total_loss"}
NoResult == [kind |-> "none"]

\* class MixtureTrainer: stage1_loss = [], stage2_loss = [], total_loss = []
ClassBody == [a \in LossSeries |-> <<>>]

TrainerStart ==
    /\ class_attrs = ClassBody
    /\ inst_attrs = [t \in Trainers |-> NoDict]
    /\ forwards = <<>>
    /\ result = NoResult
    /\ log_history = <<>>
    /\ calls = 0
    /\ since_log = [t \in Trainers |-> <<>>]
    /\ called = [op |-> "none"]
    /\ flushed = [t \in Trainers |-> [logged |-> FALSE, entries |-> <<>>]]

CollatorStart ==
    /\ pc = "idle"
    /\ collator = "none"
    /\ instances = <<>>
    /\ input_column_name = "none"
    /\ ei = 0 /\ ti = 0
    /\ input_ids = <<>> /\ attention_mask = <<>> /\ labels = <<>> /\ origin = <<>>
    /\ batch_input_ids = <<>> /\ batch_attention_mask = <<>> /\ batch_labels = <<>>
    /\ batch_origin = <<>>
    /\ stage2_dict = NoDict /\ ret = NoDict /\ ret_origin = NoDict
    /\ raised = "none"

\* make_data_module is not running and has built nothing.
DataModuleStart ==
    /\ dataset_format = "none"
    /\ mydataset = [ds |-> <<>>]
    /\ dataset = NoDict
    /\ data_raised = "none"

InitCollator ==
    /\ DataModuleStart
    /\ W_PROMPT_RANDOMIZE \in BOOLEAN
    /\ tokenizer \in [has_pad_token : BOOLEAN]
    /\ target_max_len \in TargetMaxLens
    /\ CollatorStart
    /\ stage2_ratio = <<1, 2>>
    /\ TrainerStart

example == instances[ei]

\* ------------------------------------------------- per-turn tokenizer calls
\* output = tokenizer.apply_chat_template(example['prompt'], ...,
\*                                        add_generation_prompt=False)
PromptOutput(prompt) ==
    LET ids == apply_chat_template(prompt, FALSE)
    IN [input_ids |-> ids, attention_mask |-> Ones(Len(ids))]

\* output = tokenizer.apply_chat_template([conv_dict], ...,
\*                                        add_generation_prompt=True)
UserOutput(conv_dict) ==
    LET ids == apply_chat_template(<<conv_dict>>, TRUE)
    IN [input_ids |-> ids, attention_mask |-> Ones(Len(ids))]

\* output = tokenizer(f"{conv_dict['content']}{eos_token}",
\*                    max_length=target_max_len, truncation=True, ...)
AssistantOutput(conv_dict, max_length) ==
    LET ids == EncodeTarget(conv_dict.content, max_length)
    IN [input_ids |-> ids, attention_mask |-> Ones(Len(ids))]

\* Variants of the label rules, as a slip in the code would give them.
PromptLabelsSupervised(output) == Rest(output.input_ids)
UserLabelsSupervised(output) == Rest(output.input_ids)
UserLabelsWhole(output) == Ignored(Len(output.input_ids))
AssistantLabelsIgnored(output) == Ignored(Len(output.input_ids))

\* labels += [IGNORE_INDEX for _ in range(len(output['input_ids'][1:]))]
PromptLabels(output) == Ignored(Len(Rest(output.input_ids)))
UserLabels(output) == Ignored(Len(Rest(output.input_ids)))
\* labels += output['input_ids']
AssistantLabels(output) == output.input_ids

\* Variant: the context is sampled whatever the flag is.
IncludePromptSampled(flag, sample) == sample % 2 = 0

\* not W_PROMPT_RANDOMIZE or (W_PROMPT_RANDOMIZE and
\*     random.sample([0,1], 1)[0] % 2 == 0)
IncludePrompt(flag, sample) == (~flag) \/ (flag /\ sample % 2 = 0)

\* _pad_token
PadToken(tok) == IF tok.has_pad_token THEN pad_token_id ELSE end_of_text_id

\* Variant: labels padded with the pad token.
DataDictPadLabels(ids, mask, labs, tok) ==
    [input_ids |-> pad_sequence(ids, PadToken(tok)),
     attention_mask |-> pad_sequence(mask, 0),
     labels |-> pad_sequence(labs, PadToken(tok))]

\* data_dict of one pass: the three padded tensors.
DataDict(ids, mask, labs, tok) ==
    [input_ids |-> pad_sequence(ids, PadToken(tok)),
     attention_mask |-> pad_sequence(mask, 0),
     labels |-> pad_sequence(labs, IGNORE_INDEX)]

\* Variant: no prefix.
Stage1KeyPlain(k) == k

\* {f'stage1_{k}': v for k, v in stage1_dict.items()}
Stage1Key(k) == "stage1_" \o k
PrefixKeys(d) ==
    [k2 \in {Stage1Key(k) : k \in DOMAIN d} |->
        d[CHOOSE k \in DOMAIN d : Stage1Key(k) = k2]]

\* {**a, **b}
Merge(a, b) == [k \in DOMAIN a \cup DOMAIN b |-> IF k \in DOMAIN b THEN b[k] ELSE a[k]]

\* ---------------------------------------------------------------- collators
StartPass(column) ==
    /\ input_column_name' = column
    /\ batch_input_ids' = <<>> /\ batch_attention_mask' = <<>> /\ batch_labels' = <<>>
    /\ batch_origin' = <<>>
    /\ ei' = 1 /\ ti' = 0
    /\ input_ids' = <<>> /\ attention_mask' = <<>> /\ labels' = <<>> /\ origin' = <<>>
    /\ pc' = "for_example"

\* DataCollatorForMultiTurnCausalLM.__call__(instances)
MultiTurnCall ==
    /\ pc = "idle"
    /\ \E insts \in SingleBatches : instances' = insts
    /\ collator' = "single"
    /\ StartPass("conv")
    /\ UNCHANGED <<tvars, config, stage2_dict, ret, raised, ret_origin>>

\* DataCollatorForMultiTurnMixtureTraining.__call__(instances): first
\* self._collator(instances, 'stage2_conv')
MixtureCall ==
    /\ pc = "idle"
    /\ \E insts \in MixtureBatches : instances' = insts
    /\ collator' = "mixture"
    /\ StartPass("stage2_conv")
    /\ UNCHANGED <<tvars, config, stage2_dict, ret, raised, ret_origin>>

\* for example in instances: the three lists start with BOS.
ForExample ==
    /\ pc = "for_example"
    /\ ei <= Len(instances)
    /\ input_ids' = <<bos_token_id>>
    /\ attention_mask' = <<1>>
    /\ labels' = <<IGNORE_INDEX>>
    /\ origin' = <<FromBos>>
    /\ pc' = "context"
    /\ UNCHANGED <<tvars, config, call, input_column_name, ei, ti, batch, stage2_dict,
                   ret, raised, ret_origin>>

\* Variant: the new tokens are put in front.
ExtendFront(ids, mask, labs, org) ==
    /\ input_ids' = ids \o input_ids
    /\ attention_mask' = mask \o attention_mask
    /\ labels' = labs \o labels
    /\ origin' = org \o origin

\* input_ids += ..; attention_mask += ..; labels += ..
Extend(ids, mask, labs, org) ==
    /\ input_ids' = input_ids \o ids
    /\ attention_mask' = attention_mask \o mask
    /\ labels' = labels \o labs
    /\ origin' = origin \o org

ToTurns ==
    /\ pc' = "for_turn"
    /\ ti' = 1
    /\ UNCHANGED <<tvars, config, call, input_column_name, ei, batch, stage2_dict,
                   ret, raised, ret_origin>>

\* Single-stage collator, 'prompt' in example, gate passed.
ContextInclude ==
    /\ pc = "context"
    /\ collator = "single"
    /\ "prompt" \in DOMAIN example
    /\ \E sample \in {0, 1} : IncludePrompt(W_PROMPT_RANDOMIZE, sample)
    /\ LET output == PromptOutput(example.prompt)
       IN Extend(Rest(output.input_ids), Rest(output.attention_mask),
                 PromptLabels(output),
                 Repeat(FromPrompt, Len(Rest(output.input_ids))))
    /\ ToTurns

\* Single-stage collator, 'prompt' in example, gate not passed.
ContextOmit ==
    /\ pc = "context"
    /\ collator = "single"
    /\ "prompt" \in DOMAIN example
    /\ \E sample \in {0, 1} : ~IncludePrompt(W_PROMPT_RANDOMIZE, sample)
    /\ UNCHANGED row
    /\ ToTurns

\* Either collator, no 'prompt' in example.
NoContext ==
    /\ pc = "context"
    /\ "prompt" \notin DOMAIN example
    /\ UNCHANGED row
    /\ ToTurns

Raise(exception) ==
    /\ raised' = exception
    /\ pc' = "raised"
    /\ input_column_name' = "none"
    /\ ei' = 0 /\ ti' = 0
    /\ input_ids' = <<>> /\ attention_mask' = <<>> /\ labels' = <<>> /\ origin' = <<>>
    /\ batch_input_ids' = <<>> /\ batch_attention_mask' = <<>> /\ batch_labels' = <<>>
    /\ batch_origin' = <<>>
    /\ stage2_dict' = NoDict /\ ret_origin' = NoDict
    /\ UNCHANGED <<tvars, config, call, ret>>

\* Variant: the assertion is off and the context is included (lines 617-622).
ContextAssertOff ==
    /\ pc = "context"
    /\ collator = "mixture"
    /\ "prompt" \in DOMAIN example
    /\ LET output == PromptOutput(example.prompt)
       IN Extend(Rest(output.input_ids), Rest(output.attention_mask),
                 PromptLabels(output),
                 Repeat(FromPrompt, Len(Rest(output.input_ids))))
    /\ ToTurns

\* Mixture collator: assert 'prompt' not in example
ContextAssert ==
    /\ pc = "context"
    /\ collator = "mixture"
    /\ "prompt" \in DOMAIN example
    /\ Raise("AssertionError")

conv_dict == example[input_column_name][ti]

NextTurn ==
    /\ ti' = ti + 1
    /\ UNCHANGED <<tvars, config, call, input_column_name, ei, pc, batch, stage2_dict,
                   ret, raised, ret_origin>>

UserTurn ==
    /\ pc = "for_turn"
    /\ ti <= Len(example[input_column_name])
    /\ conv_dict.role = "user"
    /\ LET output == UserOutput(conv_dict)
       IN Extend(Rest(output.input_ids), Rest(output.attention_mask),
                 UserLabels(output),
                 Repeat(FromTurn(input_column_name, ti, "user"), Len(Rest(output.input_ids))))
    /\ NextTurn

AssistantTurn ==
    /\ pc = "for_turn"
    /\ ti <= Len(example[input_column_name])
    /\ conv_dict.role = "assistant"
    /\ LET output == AssistantOutput(conv_dict, target_max_len)
       IN Extend(output.input_ids, output.attention_mask,
                 AssistantLabels(output),
                 Repeat(FromTurn(input_column_name, ti, "assistant"), Len(output.input_ids)))
    /\ NextTurn

\* Variant: a turn of another role is skipped.
OtherTurnSkipped ==
    /\ pc = "for_turn"
    /\ ti <= Len(example[input_column_name])
    /\ conv_dict.role \notin {"user", "assistant"}
    /\ UNCHANGED row
    /\ NextTurn

\* else: raise NotImplementedError()
OtherTurn ==
    /\ pc = "for_turn"
    /\ ti <= Len(example[input_column_name])
    /\ conv_dict.role \notin {"user", "assistant"}
    /\ Raise("NotImplementedError")

\* batch_input_ids.append(torch.tensor(input_ids)), ...
EndExample ==
    /\ pc = "for_turn"
    /\ ti > Len(example[input_column_name])
    /\ batch_input_ids' = Append(batch_input_ids, input_ids)
    /\ batch_attention_mask' = Append(batch_attention_mask, attention_mask)
    /\ batch_labels' = Append(batch_labels, labels)
    /\ batch_origin' = Append(batch_origin, origin)
    /\ ei' = ei + 1
    /\ ti' = 0
    /\ pc' = "for_example"
    /\ UNCHANGED <<tvars, config, call, input_column_name, row, stage2_dict, ret, raised,
                   ret_origin>>

data_dict == DataDict(batch_input_ids, batch_attention_mask, batch_labels, tokenizer)

Return(value, org) ==
    /\ ret' = value
    /\ ret_origin' = org
    /\ pc' = "returned"
    /\ input_column_name' = "none"
    /\ ei' = 0 /\ ti' = 0
    /\ input_ids' = <<>> /\ attention_mask' = <<>> /\ labels' = <<>> /\ origin' = <<>>
    /\ batch_input_ids' = <<>> /\ batch_attention_mask' = <<>> /\ batch_labels' = <<>>
    /\ batch_origin' = <<>>
    /\ stage2_dict' = NoDict
    /\ UNCHANGED <<tvars, config, call, raised>>

\* Padding and return of DataCollatorForMultiTurnCausalLM.__call__
MultiTurnReturn ==
    /\ pc = "for_example"
    /\ ei > Len(instances)
    /\ collator = "single"
    /\ Return(data_dict, [labels |-> batch_origin])

\* Padding and return of _collator(instances, 'stage2_conv'), then
\* self._collator(instances, 'stage1_conv')
MixtureStage2Done ==
    /\ pc = "for_example"
    /\ ei > Len(instances)
    /\ collator = "mixture"
    /\ input_column_name = "stage2_conv"
    /\ stage2_dict' = data_dict
    /\ ret_origin' = [labels |-> batch_origin]
    /\ StartPass("stage1_conv")
    /\ UNCHANGED <<tvars, config, call, ret, raised>>

\* Padding and return of _collator(instances, 'stage1_conv'), then the merge.
MixtureReturn ==
    /\ pc = "for_example"
    /\ ei > Len(instances)
    /\ collator = "mixture"
    /\ input_column_name = "stage1_conv"
    /\ LET stage1_dict == PrefixKeys(data_dict)
       IN Return(Merge(stage1_dict, stage2_dict),
                 Merge(PrefixKeys([labels |-> batch_origin]), ret_origin))

\* The caller has consumed the batch, or the exception; the next call may start.
NextBatch ==
    /\ pc \in {"returned", "raised"}
    /\ pc' = "idle"
    /\ collator' = "none"
    /\ instances' = <<>>
    /\ ret' = NoDict /\ ret_origin' = NoDict
    /\ raised' = "none"
    /\ UNCHANGED <<tvars, config, input_column_name, ei, ti, row, batch, stage2_dict>>

NextCollator ==
    \/ MultiTurnCall \/ MixtureCall
    \/ ForExample
    \/ ContextInclude \/ ContextOmit \/ NoContext \/ ContextAssert
    \/ UserTurn \/ AssistantTurn \/ OtherTurn
    \/ EndExample
    \/ MultiTurnReturn \/ MixtureStage2Done \/ MixtureReturn
    \/ NextBatch

SpecCollator == InitCollator /\ [][NextCollator]_vars

\* ------------------------------------------------------------ loss values
\* A loss is a rational <<numerator, denominator>> in lowest terms.
RECURSIVE Gcd(_, _)
Gcd(a, b) == IF b = 0 THEN a ELSE Gcd(b, a % b)
Abs(n) == IF n < 0 THEN -n ELSE n
Rat(n, d) == LET g == Gcd(Abs(n), d) IN <<n \div g, d \div g>>
RatAdd(x, y) == Rat(x[1] * y[2] + y[1] * x[2], x[2] * y[2])
RatSub(x, y) == Rat(x[1] * y[2] - y[1] * x[2], x[2] * y[2])
RatMul(x, y) == Rat(x[1] * y[1], x[2] * y[2])
RatOfInt(n) == <<n, 1>>

RECURSIVE RatSum(_)
RatSum(xs) == IF xs = <<>> THEN RatOfInt(0) ELSE RatAdd(Head(xs), RatSum(Tail(xs)))

\* torch.stack(xs).mean().item()
Mean(xs) == Rat(RatSum(xs)[1], RatSum(xs)[2] * Len(xs))

LossValues == {<<1, 1>>, <<5, 2>>}
Ratios == {<<0, 1>>, <<1, 4>>, <<1, 2>>, <<1, 1>>}

\* ------------------------------------------------------------ MixtureTrainer
Stage2Keys == {"input_ids", "attention_mask", "labels"}
Stage1Keys == {Stage1Key(k) : k \in Stage2Keys}

\* A batch of the mixture collator; a tensor is named by the key it came under.
FullInputs == [k \in Stage1Keys \cup Stage2Keys |-> k]
TrainerInputs ==
    {[k \in (DOMAIN FullInputs) \ missing |-> FullInputs[k]] :
        missing \in {{}} \cup {{k} : k \in DOMAIN FullInputs}}

LogInputs == {NoDict, [loss |-> <<1, 1>>]}

\* self.<name>: the instance attribute when set, else the class attribute.
Attr(self, name) ==
    IF name \in DOMAIN inst_attrs[self] THEN inst_attrs[self][name]
    ELSE class_attrs[name]

\* Variant: the labels of stage 2 handed to the pass of stage 1.
Stage1InputsCrossed(inputs) ==
    [k \in Stage2Keys |-> IF k = "labels" THEN inputs[k] ELSE inputs["stage1_" \o k]]

\* stage2_inputs = {'input_ids': inputs['input_ids'], ...}
Stage2Inputs(inputs) == [k \in Stage2Keys |-> inputs[k]]
\* stage1_inputs = {'input_ids': inputs['stage1_input_ids'], ...}
Stage1Inputs(inputs) == [k \in Stage2Keys |-> inputs[Stage1Key(k)]]

\* Variant: the two weights exchanged.
MixLossSwapped(ratio, stage1_loss, stage2_loss) ==
    RatAdd(RatMul(ratio, stage1_loss), RatMul(RatSub(RatOfInt(1), ratio), stage2_loss))

\* loss = (1-self.args.stage2_ratio)*stage1_loss + self.args.stage2_ratio*stage2_loss
MixLoss(ratio, stage1_loss, stage2_loss) ==
    RatAdd(RatMul(RatSub(RatOfInt(1), ratio), stage1_loss), RatMul(ratio, stage2_loss))

\* Variant: stage1_loss is not recorded.
AppendedAttrsNoStage1(attrs, owned, stage1_loss, stage2_loss, loss) ==
    [a \in DOMAIN attrs |->
        IF ~owned THEN attrs[a]
        ELSE CASE a = "stage2_loss" -> Append(attrs[a], stage2_loss)
               [] a = "total_loss" -> Append(attrs[a], loss)
               [] OTHER -> attrs[a]]

\* self.stage1_loss.append(..); self.stage2_loss.append(..);
\* self.total_loss.append(..): each list is changed in place, where it lives.
AppendedAttrs(attrs, owned, stage1_loss, stage2_loss, loss) ==
    [a \in DOMAIN attrs |->
        IF ~owned THEN attrs[a]
        ELSE CASE a = "stage1_loss" -> Append(attrs[a], stage1_loss)
               [] a = "stage2_loss" -> Append(attrs[a], stage2_loss)
               [] a = "total_loss" -> Append(attrs[a], loss)
               [] OTHER -> attrs[a]]

\* Variant: the pass of stage 1 is made first.
ForwardsStage1First(stage2_rets, stage1_rets) == <<stage1_rets, stage2_rets>>

\* stage2_rets = super().compute_loss(model, stage2_inputs, ..), and then
\* stage1_rets = super().compute_loss(model, stage1_inputs, ..)
Forwards(stage2_rets, stage1_rets) == <<stage2_rets, stage1_rets>>

\* Variant: the missing field is swallowed and a zero loss returned.
KeyErrorSwallowed(self) ==
    [kind |-> "loss", trainer |-> self, loss |-> <<0, 1>>, outputs |-> "none"]

\* inputs['input_ids'], inputs['stage1_input_ids'], ...: subscripting the
\* batch with a key it lacks raises KeyError, which leaves compute_loss.
KeyError(self) == [kind |-> "KeyError", trainer |-> self]

\* MixtureTrainer.compute_loss(model, inputs, return_outputs); l2 and l1 are
\* the losses the two forward passes of the model yield.
compute_loss(self, inputs, return_outputs, l2, l1) ==
    /\ calls < MaxCalls
    /\ calls' = calls + 1
    /\ called' = [op |-> "compute_loss", self |-> self, inputs |-> inputs,
                  return_outputs |-> return_outputs]
    /\ IF ~(Stage2Keys \subseteq DOMAIN inputs)
       THEN /\ forwards' = <<>>
            /\ result' = KeyError(self)
            /\ UNCHANGED <<class_attrs, inst_attrs, since_log>>
       ELSE IF ~(Stage1Keys \subseteq DOMAIN inputs)
       THEN /\ forwards' = <<[inputs |-> Stage2Inputs(inputs), loss |-> l2]>>
            /\ result' = KeyError(self)
            /\ UNCHANGED <<class_attrs, inst_attrs, since_log>>
       ELSE LET stage2_rets == [inputs |-> Stage2Inputs(inputs), loss |-> l2]
                stage1_rets == [inputs |-> Stage1Inputs(inputs), loss |-> l1]
                loss == MixLoss(stage2_ratio, stage1_rets.loss, stage2_rets.loss)
                on_instance == "total_loss" \in DOMAIN inst_attrs[self]
            IN /\ forwards' = Forwards(stage2_rets, stage1_rets)
               /\ class_attrs' = AppendedAttrs(class_attrs, ~on_instance,
                                               stage1_rets.loss, stage2_rets.loss, loss)
               /\ inst_attrs' = [inst_attrs EXCEPT ![self] =
                                    AppendedAttrs(@, on_instance, stage1_rets.loss,
                                                  stage2_rets.loss, loss)]
               /\ since_log' = [since_log EXCEPT ![self] =
                                    Append(@, [stage1_loss |-> stage1_rets.loss,
                                               stage2_loss |-> stage2_rets.loss,
                                               total_loss |-> loss])]
               /\ result' = [kind |-> "loss", trainer |-> self, loss |-> loss,
                             outputs |-> IF return_outputs THEN "stage2_output"
                                                           ELSE "none"]
    /\ UNCHANGED <<cvars, dvars, stage2_ratio, log_history, flushed>>

\* Variants: the means injected without the test, the window not cleared.
HasLossesAlways(total_loss) == TRUE
KeptAttrs(attrs) == attrs

\* if len(self.total_loss) > 0:
HasLosses(total_loss) == Len(total_loss) > 0

\* logs['stage1_loss'] = torch.stack(self.stage1_loss).mean().item(), ...
LoggedRecord(logs, stage1_loss, stage2_loss, total_loss) ==
    Merge(logs, [stage1_loss |-> Mean(stage1_loss),
                 stage2_loss |-> Mean(stage2_loss),
                 total_loss |-> Mean(total_loss)])

\* self.stage1_loss = []; self.stage2_loss = []; self.total_loss = []
ClearedAttrs(attrs) == Merge(attrs, [a \in LossSeries |-> <<>>])

\* MixtureTrainer.log(logs); torch.stack raises RuntimeError on an empty list.
log(self, logs) ==
    /\ calls < MaxCalls
    /\ calls' = calls + 1
    /\ called' = [op |-> "log", self |-> self, logs |-> logs]
    /\ flushed' = [flushed EXCEPT ![self] = [logged |-> TRUE, entries |-> since_log[self]]]
    /\ LET stage1_loss == Attr(self, "stage1_loss")
           stage2_loss == Attr(self, "stage2_loss")
           total_loss == Attr(self, "total_loss")
       IN IF HasLosses(total_loss)
             /\ (stage1_loss = <<>> \/ stage2_loss = <<>> \/ total_loss = <<>>)
          THEN /\ result' = [kind |-> "RuntimeError", trainer |-> self]
               /\ UNCHANGED <<log_history, inst_attrs, since_log>>
          ELSE /\ log_history' =
                     Append(log_history,
                            [trainer |-> self,
                             logs |-> IF HasLosses(total_loss)
                                      THEN LoggedRecord(logs, stage1_loss, stage2_loss,
                                                        total_loss)
                                      ELSE logs])
               /\ inst_attrs' = [inst_attrs EXCEPT ![self] = ClearedAttrs(@)]
               /\ since_log' = [since_log EXCEPT ![self] = <<>>]
               /\ result' = [kind |-> "log", trainer |-> self]
    /\ UNCHANGED <<cvars, dvars, stage2_ratio, class_attrs, forwards>>

ComputeLoss(self) ==
    \E inputs \in TrainerInputs, return_outputs \in BOOLEAN, l2, l1 \in LossValues :
        compute_loss(self, inputs, return_outputs, l2, l1)

Log(self) == \E logs \in LogInputs : log(self, logs)

InitTrainer ==
    /\ DataModuleStart
    /\ W_PROMPT_RANDOMIZE = FALSE
    /\ tokenizer = [has_pad_token |-> TRUE]
    /\ target_max_len \in TargetMaxLens
    /\ CollatorStart
    /\ stage2_ratio \in Ratios
    /\ TrainerStart

\* One MixtureTrainer, as train() creates it.
Created == {"t1"}
NextTrainer == \E self \in Created : ComputeLoss(self) \/ Log(self)

SpecTrainer == InitTrainer /\ [][NextTrainer]_vars

\* ===================================================================
\* Properties of the collators (checked under SpecCollator)
\* ===================================================================
ConvColumns == {"conv", "stage1_conv", "stage2_conv"}

View(ids, mask, labs, org, ex) ==
    [ids |-> ids, mask |-> mask, labs |-> labs, org |-> org, ex |-> ex]

\* The lists of the example being compiled, once they are initialised.
CurrentViews ==
    IF pc \in {"context", "for_turn"}
    THEN {View(input_ids, attention_mask, labels, origin, example)}
    ELSE {}

\* The sequences compiled so far in the running pass.
BatchViews ==
    {View(batch_input_ids[r], batch_attention_mask[r], batch_labels[r],
          batch_origin[r], instances[r]) : r \in 1..Len(batch_origin)}

\* The rows of the padded tensors of d, with the history org of each row.
DictViews(d, org) ==
    UNION {IF {p \o "input_ids", p \o "attention_mask", p \o "labels"} \subseteq DOMAIN d
              /\ (p \o "labels") \in DOMAIN org
           THEN {View(d[p \o "input_ids"][r], d[p \o "attention_mask"][r],
                      d[p \o "labels"][r], org[p \o "labels"][r], instances[r]) :
                    r \in 1..Min(Len(org[p \o "labels"]), Len(instances))}
           ELSE {} : p \in {"", "stage1_"}}

PaddedViews == DictViews(stage2_dict, ret_origin) \cup DictViews(ret, ret_origin)
AllViews == CurrentViews \cup BatchViews \cup PaddedViews

\* Positions of view v that turn t of column col contributed.
TurnPositions(v, col, t) ==
    {i \in 1..Len(v.org) : v.org[i].src = col /\ v.org[i].turn = t}

TurnsOfRole(v, role) ==
    {ct \in ConvColumns \X (1..MaxCallSize) :
        /\ ct[1] \in DOMAIN v.ex
        /\ ct[2] <= Len(v.ex[ct[1]])
        /\ v.ex[ct[1]][ct[2]].role = role}

Within(v, i) == i <= Len(v.ids) /\ i <= Len(v.labs) /\ i <= Len(v.mask)

\* C1: every position an assistant turn contributed is supervised:
\* labels[i] = input_ids[i], the last token of the turn included.
C1_AssistantSupervised ==
    \A v \in AllViews : \A ct \in TurnsOfRole(v, "assistant") :
        \A i \in TurnPositions(v, ct[1], ct[2]) :
            Within(v, i) /\ v.labs[i] = v.ids[i]

\* A returned mixture batch with an assistant turn in both stages, one of
\* them ending with the end-of-turn token.
C1_Witness ==
    /\ pc = "returned" /\ collator = "mixture"
    /\ \E v \in PaddedViews : \E ct \in TurnsOfRole(v, "assistant") :
          /\ ct[1] = "stage1_conv"
          /\ \E i \in TurnPositions(v, ct[1], ct[2]) : v.ids[i] = eot_id
    /\ \E v \in PaddedViews : \E ct \in TurnsOfRole(v, "assistant") :
          /\ ct[1] = "stage2_conv"
          /\ TurnPositions(v, ct[1], ct[2]) # {}

\* C2: every position a user turn contributed has labels[i] = IGNORE_INDEX.
C2_UserIgnored ==
    \A v \in AllViews : \A ct \in TurnsOfRole(v, "user") :
        \A i \in TurnPositions(v, ct[1], ct[2]) :
            Within(v, i) /\ v.labs[i] = IGNORE_INDEX

\* A returned batch with a user turn that follows an assistant turn and has
\* content.
C2_Witness ==
    /\ pc = "returned"
    /\ \E v \in PaddedViews : \E ct \in TurnsOfRole(v, "user") :
          /\ ct[2] > 1
          /\ v.ex[ct[1]][ct[2] - 1].role = "assistant"
          /\ v.ex[ct[1]][ct[2]].content # <<>>
          /\ TurnPositions(v, ct[1], ct[2]) # {}

PromptPositions(v) == {i \in 1..Len(v.org) : v.org[i].src = "prompt"}

\* C3: an included context stands directly after BOS and before every turn,
\* none of its positions is supervised, and a supervised position always
\* comes from an assistant turn of the conversation column.
C3_ContextNeverSupervised ==
    \A v \in AllViews :
        /\ PromptPositions(v) # {} =>
              /\ "prompt" \in DOMAIN v.ex
              /\ LET P == Rest(apply_chat_template(v.ex.prompt, FALSE))
                 IN /\ PromptPositions(v) = 2..(Len(P) + 1)
                    /\ \A i \in PromptPositions(v) :
                          Within(v, i) /\ v.ids[i] = P[i - 1]
                                       /\ v.labs[i] = IGNORE_INDEX
        /\ \A i \in 1..Len(v.labs) :
              v.labs[i] # IGNORE_INDEX =>
                  /\ i <= Len(v.org)
                  /\ v.org[i].src \in ConvColumns
                  /\ v.org[i].role = "assistant"

\* A returned batch: a context holding an assistant turn was included and an
\* assistant turn of 'conv' after it is supervised.
C3_Witness ==
    /\ pc = "returned"
    /\ \E v \in PaddedViews :
          /\ PromptPositions(v) # {}
          /\ \E k \in 1..Len(v.ex.prompt) : v.ex.prompt[k].role = "assistant"
          /\ \E i \in 1..Len(v.org) : v.org[i].src = "conv" /\ v.labs[i] = v.ids[i]

Aligned(v) == Len(v.ids) = Len(v.mask) /\ Len(v.mask) = Len(v.labs)

\* C4: input_ids, attention_mask and labels have the same length after the
\* BOS initialisation, after the context append, after each turn append and
\* in every compiled sequence.
C4_Aligned == \A v \in AllViews : Aligned(v)

\* The running example after its context and two of its turns were appended.
C4_Witness ==
    /\ pc = "for_turn" /\ ti = 3
    /\ \E v \in CurrentViews :
          PromptPositions(v) # {} /\ Len(v.ids) > Cardinality(PromptPositions(v)) + 1

BosFirst(v) ==
    /\ Len(v.ids) >= 1 /\ Len(v.mask) >= 1 /\ Len(v.labs) >= 1
    /\ v.ids[1] = bos_token_id
    /\ v.mask[1] = 1
    /\ v.labs[1] = IGNORE_INDEX

\* C5: position 0 of every sequence is BOS with attention_mask 1 and label
\* IGNORE_INDEX, from the initialisation on and through every append.
C5_BosFirst == \A v \in AllViews : BosFirst(v)

\* A returned batch with a row compiled from an empty list of turns, and one
\* compiled from a context and a turn.
C5_Witness ==
    /\ pc = "returned"
    /\ \E v \in PaddedViews : Len(v.org) = 1
    /\ \E v \in PaddedViews :
          PromptPositions(v) # {} /\ Len(v.org) > Cardinality(PromptPositions(v)) + 1

Padded(v) ==
    \A j \in (Len(v.org) + 1)..Len(v.ids) :
        /\ Within(v, j)
        /\ v.mask[j] = 0
        /\ v.labs[j] = IGNORE_INDEX
        /\ v.ids[j] = IF tokenizer.has_pad_token THEN pad_token_id ELSE end_of_text_id

\* The step that pads the sequences of a pass keeps every compiled value.
PadKeepsCompiled ==
    (pc = "for_example" /\ ei > Len(instances) /\ pc' # "raised") =>
        LET d == IF pc' = "returned" THEN ret' ELSE stage2_dict'
            p == IF input_column_name = "stage1_conv" THEN "stage1_" ELSE ""
        IN /\ {p \o "input_ids", p \o "attention_mask", p \o "labels"} \subseteq DOMAIN d
           /\ \A r \in 1..Len(batch_input_ids) :
                 /\ Len(d[p \o "input_ids"]) >= r
                 /\ \A j \in 1..Len(batch_input_ids[r]) :
                       /\ j <= Len(d[p \o "input_ids"][r])
                       /\ d[p \o "input_ids"][r][j] = batch_input_ids[r][j]
                 /\ \A j \in 1..Len(batch_attention_mask[r]) :
                       /\ j <= Len(d[p \o "attention_mask"][r])
                       /\ d[p \o "attention_mask"][r][j] = batch_attention_mask[r][j]
                 /\ \A j \in 1..Len(batch_labels[r]) :
                       /\ j <= Len(d[p \o "labels"][r])
                       /\ d[p \o "labels"][r][j] = batch_labels[r][j]

\* C6: in a batch, every position past the length of the row's compiled
\* sequence has attention_mask 0, label IGNORE_INDEX and the pad id (the id
\* of <|end_of_text|> without a pad token), and the positions before it keep
\* the compiled values.
C6_Padding ==
    /\ [](\A v \in PaddedViews : Padded(v))
    /\ [][PadKeepsCompiled]_vars

\* A returned batch of a tokenizer without pad token, with a padded row.
C6_Witness ==
    /\ pc = "returned"
    /\ ~tokenizer.has_pad_token
    /\ \E v \in PaddedViews : Len(v.ids) > Len(v.org) + 1

MixtureKeys == {"stage1_input_ids", "stage1_attention_mask", "stage1_labels",
                "input_ids", "attention_mask", "labels"}

\* The three tensors under prefix p are built from column col: same shape,
\* one row per example, every turn of the column and no other in the row.
StageBuiltFrom(p, col) ==
    /\ (p \o "labels") \in DOMAIN ret_origin
    /\ Len(ret_origin[p \o "labels"]) = Len(instances)
    /\ \A k \in {"input_ids", "attention_mask", "labels"} :
          /\ (p \o k) \in DOMAIN ret
          /\ Len(ret[p \o k]) = Len(instances)
    /\ \A r \in 1..Len(instances) :
          LET org == ret_origin[p \o "labels"][r]
          IN /\ \A i \in 1..Len(org) : org[i].src \in {"bos", col}
             /\ \A t \in 1..Len(instances[r][col]) :
                   \E i \in 1..Len(org) : org[i].src = col /\ org[i].turn = t

\* The merge {**stage1_dict, **stage2_dict} keeps the fields of stage 2.
MergeKeepsStage2 ==
    (collator = "mixture" /\ pc' = "returned") =>
        \A k \in {"input_ids", "attention_mask", "labels"} :
            k \in DOMAIN ret' /\ k \in DOMAIN stage2_dict /\ ret'[k] = stage2_dict[k]

\* C7: the mixture batch has exactly the six keys, the 'stage1_' ones built
\* from 'stage1_conv' and the unprefixed ones from 'stage2_conv', the merge
\* overwrites nothing, and each stage has BOS first, aligned and padded rows.
C7_MixtureBatch ==
    /\ []((pc = "returned" /\ collator = "mixture") =>
            /\ DOMAIN ret = MixtureKeys
            /\ Cardinality(DOMAIN ret) = 6
            /\ StageBuiltFrom("stage1_", "stage1_conv")
            /\ StageBuiltFrom("", "stage2_conv")
            /\ Cardinality(DictViews(ret, ret_origin)) >= 1
            /\ \A v \in DictViews(ret, ret_origin) :
                  BosFirst(v) /\ Aligned(v) /\ Padded(v))
    /\ [][MergeKeepsStage2]_vars

\* A returned mixture batch whose two stages have different widths.
C7_Witness ==
    /\ pc = "returned" /\ collator = "mixture"
    /\ DOMAIN ret = MixtureKeys
    /\ Len(ret["stage1_input_ids"][1]) > Len(ret["input_ids"][1])
    /\ Len(ret["input_ids"][1]) > 1

\* ===================================================================
\* Properties of MixtureTrainer (checked under SpecTrainer)
\* ===================================================================
Stage1Fields == [input_ids |-> "stage1_input_ids",
                 attention_mask |-> "stage1_attention_mask",
                 labels |-> "stage1_labels"]
Stage2Fields == [input_ids |-> "input_ids",
                 attention_mask |-> "attention_mask",
                 labels |-> "labels"]

\* c = (1 - r) * a + r * b, over the rationals.
IsMixture(c, r, a, b) ==
    c[1] * (r[2] * a[2] * b[2]) =
        c[2] * ((r[2] - r[1]) * a[1] * b[2] + r[1] * b[1] * a[2])

\* C8: compute_loss returns (1 - stage2_ratio) * lossA + stage2_ratio * lossB,
\* lossA the loss of the pass on the 'stage1_' fields and lossB the loss of
\* the pass on the unprefixed fields: lossA for ratio 0, lossB for ratio 1,
\* their half sum for ratio 1/2.
C8_CombinedLoss ==
    result.kind = "loss" =>
        \E i, j \in 1..Len(forwards) :
            /\ forwards[i].inputs = Stage1Fields
            /\ forwards[j].inputs = Stage2Fields
            /\ LET lossA == forwards[i].loss
                   lossB == forwards[j].loss
               IN /\ IsMixture(result.loss, stage2_ratio, lossA, lossB)
                  /\ stage2_ratio = <<0, 1>> => result.loss = lossA
                  /\ stage2_ratio = <<1, 1>> => result.loss = lossB
                  /\ stage2_ratio = <<1, 2>> =>
                        2 * result.loss[1] * lossA[2] * lossB[2] =
                            result.loss[2] * (lossA[1] * lossB[2] + lossB[1] * lossA[2])

\* A call with ratio 1/4 whose two passes yield different losses.
C8_Witness ==
    /\ result.kind = "loss"
    /\ stage2_ratio = <<1, 4>>
    /\ Len(forwards) = 2
    /\ forwards[1].loss # forwards[2].loss

Series(entries, a) == [i \in 1..Len(entries) |-> entries[i][a]]

RECURSIVE SeqSum(_)
SeqSum(xs) ==
    IF xs = <<>> THEN <<0, 1>>
    ELSE LET h == Head(xs)
             r == SeqSum(Tail(xs))
         IN <<h[1] * r[2] + r[1] * h[2], h[2] * r[2]>>

\* m is the arithmetic mean of the rationals xs.
IsMean(m, xs) ==
    /\ xs # <<>>
    /\ m[2] > 0
    /\ m[1] * SeqSum(xs)[2] * Len(xs) = m[2] * SeqSum(xs)[1]

LogsOf(t) == SelectSeq(log_history, LAMBDA e : e.trainer = t)

\* C9: the window of a trainer holds exactly the entries its compute_loss
\* calls appended since its last log call; a log call injects the means of
\* exactly these entries and leaves the three series empty.
C9_FlushedOnce ==
    \A t \in Created :
        /\ \A a \in LossSeries : Attr(t, a) = Series(since_log[t], a)
        /\ (flushed[t].logged /\ flushed[t].entries # <<>>) =>
              /\ LogsOf(t) # <<>>
              /\ LET rec == LogsOf(t)[Len(LogsOf(t))].logs
                 IN \A a \in LossSeries :
                       /\ a \in DOMAIN rec
                       /\ IsMean(rec[a], Series(flushed[t].entries, a))
        /\ (result.kind = "log" /\ result.trainer = t) =>
              \A a \in LossSeries : Attr(t, a) = <<>>

\* compute_loss, log, compute_loss, log: the two log records carry the means
\* of different entries.
C9_Witness ==
    /\ Len(log_history) = 2
    /\ result.kind = "log"
    /\ "total_loss" \in DOMAIN log_history[1].logs
    /\ "total_loss" \in DOMAIN log_history[2].logs
    /\ log_history[1].logs.total_loss # log_history[2].logs.total_loss

\* C10: a log call with no compute_loss call since the previous log call, or
\* since the start, adds none of the three keys, does not raise and leaves
\* the window empty.
C10_LogTwice ==
    \A t \in Created :
        (/\ result.kind \in {"log", "RuntimeError"}
         /\ result.trainer = t
         /\ flushed[t].entries = <<>>) =>
            /\ result.kind = "log"
            /\ log_history # <<>>
            /\ log_history[Len(log_history)].trainer = t
            /\ DOMAIN log_history[Len(log_history)].logs \cap LossSeries = {}
            /\ \A a \in LossSeries : Attr(t, a) = <<>>

\* compute_loss, log, log: the second log call finds the window drained.
C10_Witness ==
    /\ Len(log_history) = 2
    /\ result.kind = "log"
    /\ "total_loss" \in DOMAIN log_history[1].logs
    /\ flushed[result.trainer].entries = <<>>
    /\ "total_loss" \notin DOMAIN log_history[2].logs

\* C11: a compute_loss call on a batch that lacks a field of either stage
\* ends with a KeyError, returns no loss and leaves the three series of
\* every trainer as they were before the call.
C11_MissingFieldFatal ==
    [][(/\ called'.op = "compute_loss"
        /\ calls' = calls + 1
        /\ ~((Stage1Keys \cup Stage2Keys) \subseteq DOMAIN called'.inputs)) =>
           /\ result'.kind = "KeyError"
           /\ "loss" \notin DOMAIN result'
           /\ class_attrs' = class_attrs
           /\ inst_attrs' = inst_attrs
           /\ \A t \in Trainers, a \in LossSeries : Attr(t, a)' = Attr(t, a)]_vars

\* A call that failed on a 'stage1_' field after the pass on the unprefixed
\* fields ran, with two entries in the window from the calls before it.
C11_Witness ==
    /\ result.kind = "KeyError"
    /\ called.op = "compute_loss"
    /\ Stage2Keys \subseteq DOMAIN called.inputs
    /\ Len(forwards) = 1
    /\ Len(Attr(result.trainer, "total_loss")) = 2

\* ===================================================================
\* Faults of the collators (checked under SpecCollator)
\* ===================================================================
OtherRole(conv) == \E t \in 1..Len(conv) : conv[t].role \notin {"user", "assistant"}

\* Some turn of some example of the call has a role the collators do not know.
HasOtherRole ==
    \E r \in 1..Len(instances) :
        \E col \in ConvColumns \cap DOMAIN instances[r] : OtherRole(instances[r][col])

HasPrompt == \E r \in 1..Len(instances) : "prompt" \in DOMAIN instances[r]

\* In the mixture collator the first pass meets an example with 'prompt'
\* before it meets a turn of another role.
AssertsFirst ==
    /\ collator = "mixture"
    /\ \E r \in 1..Len(instances) :
          /\ "prompt" \in DOMAIN instances[r]
          /\ \A q \in 1..(r - 1) : ~OtherRole(instances[q]["stage2_conv"])

\* C12 as stated: a call on a batch with a turn of another role ends with
\* NotImplementedError and returns nothing.
C12_OtherRoleRaises ==
    (pc \in {"returned", "raised"} /\ HasOtherRole) =>
        /\ pc = "raised"
        /\ raised = "NotImplementedError"
        /\ ret = NoDict

\* C12, amended: a call on a batch with a turn of another role never returns a
\* batch, whole or partial, in the single-stage collator and in both passes
\* of the mixture collator; it ends with NotImplementedError, except that in
\* the mixture collator it ends with AssertionError when the first pass meets
\* an example with 'prompt' before any such turn.
C12_OtherRoleFatal ==
    /\ pc # "returned" => ret = NoDict
    /\ (pc \in {"returned", "raised"} /\ HasOtherRole) =>
          /\ pc = "raised"
          /\ ret = NoDict /\ stage2_dict = NoDict
          /\ raised = IF AssertsFirst THEN "AssertionError" ELSE "NotImplementedError"

\* The second pass of the mixture collator raised on the second example:
\* the first pass and the first example were compiled and are not returned.
C12_Witness ==
    /\ pc = "raised" /\ raised = "NotImplementedError"
    /\ collator = "mixture"
    /\ Len(instances) = 2
    /\ ~OtherRole(instances[1]["stage1_conv"])
    /\ \A r \in 1..2 : ~OtherRole(instances[r]["stage2_conv"])
    /\ OtherRole(instances[2]["stage1_conv"])
    /\ instances[1]["stage2_conv"] # <<>>

\* The token ids the turns of conv contribute, in order.
RECURSIVE TurnIds(_, _)
TurnIds(conv, max_length) ==
    IF conv = <<>> THEN <<>>
    ELSE (IF Head(conv).role = "user"
          THEN Rest(apply_chat_template(<<Head(conv)>>, TRUE))
          ELSE EncodeTarget(Head(conv).content, max_length))
         \o TurnIds(Tail(conv), max_length)

\* Row r of the field under key k holds BOS and the turns of column col,
\* nothing else, before its padding.
RowOfTurns(k, r, col) ==
    LET want == <<bos_token_id>> \o TurnIds(instances[r][col], target_max_len)
    IN /\ k \in DOMAIN ret
       /\ Len(ret[k]) >= r
       /\ Len(ret[k][r]) >= Len(want)
       /\ SubSeq(ret[k][r], 1, Len(want)) = want
       /\ \A j \in (Len(want) + 1)..Len(ret[k][r]) : ret[k][r][j] = PadToken(tokenizer)

\* C13 as stated: a call of the mixture collator on a batch with a 'prompt'
\* field ends with the assertion failure and returns nothing.
C13_PromptAsserts ==
    (collator = "mixture" /\ pc \in {"returned", "raised"} /\ HasPrompt) =>
        /\ pc = "raised"
        /\ raised = "AssertionError"
        /\ ret = NoDict

\* C13, amended: a call of the mixture collator on a batch with a 'prompt'
\* field never returns a batch; it ends with the assertion failure, raised
\* in the first pass, except when that pass meets a turn of another role in
\* an earlier example: then it ends with NotImplementedError. No sequence
\* of either stage ever holds a context token: each returned row is BOS and
\* the turns of its own column.
C13_PromptFatal ==
    collator = "mixture" =>
        /\ (pc \in {"returned", "raised"} /\ HasPrompt) =>
              /\ pc = "raised"
              /\ ret = NoDict /\ stage2_dict = NoDict
              /\ raised = IF AssertsFirst THEN "AssertionError"
                                          ELSE "NotImplementedError"
        /\ \A v \in AllViews :
              \A i \in 1..Len(v.org) : v.org[i].src \in {"bos", "stage1_conv", "stage2_conv"}
        /\ pc = "returned" =>
              \A r \in 1..Len(instances) :
                  /\ RowOfTurns("stage1_input_ids", r, "stage1_conv")
                  /\ RowOfTurns("input_ids", r, "stage2_conv")

\* The mixture collator compiled one example, then met one with a context
\* of two turns and raised.
C13_Witness ==
    /\ pc = "raised" /\ raised = "AssertionError"
    /\ collator = "mixture"
    /\ Len(instances) = 2
    /\ "prompt" \notin DOMAIN instances[1]
    /\ "prompt" \in DOMAIN instances[2]
    /\ Len(instances[2]["prompt"]) = 2

\* The column the fields under prefix p are compiled from.
StageColumn(p) ==
    IF p = "stage1_" THEN "stage1_conv"
    ELSE IF collator = "single" THEN "conv" ELSE "stage2_conv"

Row(ids, org, ex, col) == [ids |-> ids, org |-> org, ex |-> ex, col |-> col]

\* The compiled rows of the running pass, each with its example and column.
RunningRows ==
    {Row(batch_input_ids[r], batch_origin[r], instances[r], input_column_name) :
        r \in 1..Len(batch_origin)}

\* The rows of the padded input_ids of d, each with its example and column.
RowsOf(d, org) ==
    UNION {IF (p \o "input_ids") \in DOMAIN d /\ (p \o "labels") \in DOMAIN org
           THEN {Row(d[p \o "input_ids"][r], org[p \o "labels"][r], instances[r],
                     StageColumn(p)) :
                    r \in 1..Min(Len(org[p \o "labels"]), Len(instances))}
           ELSE {} : p \in {"", "stage1_"}}

CompiledRows == RunningRows \cup RowsOf(stage2_dict, ret_origin) \cup RowsOf(ret, ret_origin)

\* C14: an assistant turn contributes the first min(n, target_max_len) tokens
\* of its content followed by the end-of-turn token, n being the length of
\* that tokenization: exactly target_max_len tokens when n is larger, all n
\* tokens ending with the end-of-turn token otherwise; and a call raises
\* only for a turn of another role or a 'prompt' in the mixture collator,
\* never for the length of a turn.
C14_TargetTruncated ==
    /\ \A w \in CompiledRows : \A t \in 1..Len(w.ex[w.col]) :
          w.ex[w.col][t].role = "assistant" =>
              LET full == Encode(w.ex[w.col][t].content) \o <<eot_id>>
                  n == Len(full)
                  k == IF n < target_max_len THEN n ELSE target_max_len
                  P == {i \in 1..Len(w.org) : w.org[i].src = w.col /\ w.org[i].turn = t}
              IN /\ Cardinality(P) = k
                 /\ \E a \in 1..(Len(w.ids) + 1) :
                       /\ P = a..(a + k - 1)
                       /\ a + k - 1 <= Len(w.ids)
                       /\ \A j \in 1..k : w.ids[a + j - 1] = full[j]
                       /\ n > target_max_len => Cardinality(P) = target_max_len
                       /\ n <= target_max_len =>
                             Cardinality(P) = n /\ w.ids[a + n - 1] = eot_id
    /\ pc = "raised" => (HasOtherRole \/ (collator = "mixture" /\ HasPrompt))

\* A returned row with an assistant turn cut to target_max_len tokens, its
\* end-of-turn token lost, and an assistant turn contributed whole.
C14_Witness ==
    /\ pc = "returned"
    /\ \E w \in RowsOf(ret, ret_origin) :
          /\ \E t \in 1..Len(w.ex[w.col]) :
                /\ w.ex[w.col][t].role = "assistant"
                /\ Len(w.ex[w.col][t].content) + 1 > target_max_len
                /\ \A i \in 1..Len(w.org) :
                      (w.org[i].src = w.col /\ w.org[i].turn = t) => w.ids[i] # eot_id
          /\ \E t \in 1..Len(w.ex[w.col]) :
                /\ w.ex[w.col][t].role = "assistant"
                /\ Len(w.ex[w.col][t].content) + 1 <= target_max_len
                /\ \E i \in 1..Len(w.org) :
                      w.org[i].src = w.col /\ w.org[i].turn = t /\ w.ids[i] = eot_id

\* ===================================================================
\* The forward passes and the window of MixtureTrainer
\* ===================================================================
\* The stage whose tensors the pass f was given: "A" for the 'stage1_'
\* fields, "B" for the unprefixed ones, "mixed" otherwise.
StageOf(f) ==
    LET given == {f.inputs[k] : k \in DOMAIN f.inputs}
    IN IF given \subseteq Stage1Keys THEN "A"
       ELSE IF given \subseteq Stage2Keys THEN "B" ELSE "mixed"

\* C15 as stated: a compute_loss call that returns made two passes, the pass
\* of stage A first and the pass of stage B second.
C15_StageAFirst ==
    result.kind = "loss" =>
        /\ Len(forwards) = 2
        /\ StageOf(forwards[1]) = "A"
        /\ StageOf(forwards[2]) = "B"

\* C15, amended: a compute_loss call that returns made exactly two forward
\* passes, one after the other: first the pass of stage B (the unprefixed
\* fields), then the pass of stage A (the 'stage1_' fields); a call that
\* failed made at most the pass of stage B.
C15_StageBFirst ==
    /\ result.kind = "loss" =>
          /\ Len(forwards) = 2
          /\ StageOf(forwards[1]) = "B"
          /\ StageOf(forwards[2]) = "A"
    /\ result.kind = "KeyError" =>
          /\ Len(forwards) <= 1
          /\ \A i \in 1..Len(forwards) : StageOf(forwards[i]) = "B"

\* A call with return_outputs set has returned after its two passes.
C15_Witness ==
    /\ result.kind = "loss"
    /\ called.op = "compute_loss" /\ called.return_outputs
    /\ Len(forwards) = 2
    /\ result.outputs = "stage2_output"

\* C16: the first forward pass of a compute_loss call is given exactly the
\* keys input_ids, attention_mask and labels holding the unprefixed tensors
\* of the batch, and its loss is lossB, the one the ratio weighs and the
\* 'stage2_loss' series records; the second is given the same three keys
\* holding the 'stage1_' tensors, and its loss is lossA; no tensor of one
\* stage reaches the pass of the other.
C16_PassInputs ==
    (result.kind = "loss" /\ called.op = "compute_loss") =>
        /\ Len(forwards) = 2
        /\ \A i \in 1..Len(forwards) :
              DOMAIN forwards[i].inputs = {"input_ids", "attention_mask", "labels"}
        /\ \A k \in {"input_ids", "attention_mask", "labels"} :
              /\ forwards[1].inputs[k] = called.inputs[k]
              /\ forwards[2].inputs[k] = called.inputs["stage1_" \o k]
              /\ forwards[1].inputs[k] \notin Stage1Keys
              /\ forwards[2].inputs[k] \notin Stage2Keys
        /\ LET lossB == forwards[1].loss
               lossA == forwards[2].loss
               series2 == Attr(result.trainer, "stage2_loss")
               series1 == Attr(result.trainer, "stage1_loss")
           IN /\ IsMixture(result.loss, stage2_ratio, lossA, lossB)
              /\ series2 # <<>> /\ series2[Len(series2)] = lossB
              /\ series1 # <<>> /\ series1[Len(series1)] = lossA

\* A call with ratio 1 whose passes yield different losses: the loss
\* returned is the one of the first pass.
C16_Witness ==
    /\ result.kind = "loss"
    /\ stage2_ratio = <<1, 1>>
    /\ Len(forwards) = 2
    /\ forwards[1].loss # forwards[2].loss
    /\ result.loss = forwards[1].loss

\* A compute_loss call that returns appends lossA, lossB and the loss it
\* returns to the end of the three series of its trainer, one entry each.
AppendsOneEach ==
    (called'.op = "compute_loss" /\ calls' = calls + 1 /\ result'.kind = "loss") =>
        \A t \in Trainers :
            result'.trainer = t =>
                /\ Len(forwards') = 2
                /\ Attr(t, "stage1_loss")' = Append(Attr(t, "stage1_loss"), forwards'[2].loss)
                /\ Attr(t, "stage2_loss")' = Append(Attr(t, "stage2_loss"), forwards'[1].loss)
                /\ Attr(t, "total_loss")' = Append(Attr(t, "total_loss"), result'.loss)

\* C17: every compute_loss call that returns appends exactly one entry to
\* each of stage1_loss, stage2_loss and total_loss (lossA, lossB and the
\* combined loss of the call, in call order), and in every state the three
\* series of the trainer have one length, the number of such calls since
\* its last log call.
C17_OneEntryEach ==
    /\ [][AppendsOneEach]_vars
    /\ [](\A t \in Created :
            /\ Len(Attr(t, "stage1_loss")) = Len(Attr(t, "stage2_loss"))
            /\ Len(Attr(t, "stage2_loss")) = Len(Attr(t, "total_loss"))
            /\ Len(Attr(t, "total_loss")) = Len(since_log[t]))

\* After a log call, two calls have returned with different combined losses.
C17_Witness ==
    /\ result.kind = "loss"
    /\ flushed[result.trainer].logged
    /\ Len(Attr(result.trainer, "total_loss")) = 2
    /\ Len(Attr(result.trainer, "stage1_loss")) = 2
    /\ Attr(result.trainer, "total_loss")[1] # Attr(result.trainer, "total_loss")[2]

\* ===================================================================
\* Two MixtureTrainer instances in one process
\* ===================================================================
NextTwoTrainers == \E self \in Trainers : ComputeLoss(self) \/ Log(self)

SpecTwoTrainers == InitTrainer /\ [][NextTwoTrainers]_vars

\* A call on one instance leaves the three series of every other instance
\* as they were.
OthersUntouched ==
    \A t \in Trainers :
        (calls' = calls + 1 /\ called'.self # t) =>
            \A a \in LossSeries : Attr(t, a)' = Attr(t, a)

\* The record of the latest log call of t that injected means carries the
\* means of the losses of t's own compute_loss calls.
OwnMeans(t) ==
    (called.op = "log" /\ called.self = t /\ result.kind = "log"
        /\ log_history # <<>>
        /\ LossSeries \subseteq DOMAIN log_history[Len(log_history)].logs) =>
        \A a \in LossSeries :
            IsMean(log_history[Len(log_history)].logs[a], Series(flushed[t].entries, a))

\* C18: each instance owns its window: a compute_loss or log call on one
\* instance never changes the series of the other, in any interleaving and
\* from the start on, and the means an instance logs are those of its own
\* losses.
C18_OwnWindow ==
    /\ [][OthersUntouched]_vars
    /\ [](\A t \in Trainers : OwnMeans(t))

\* ===================================================================
\* Shape of the batches (checked under SpecCollator)
\* ===================================================================
\* Length of the sequence compiled from column col of example ex, its
\* context included or not.
CompiledLen(ex, col, with_prompt) ==
    1 + (IF with_prompt THEN Len(Rest(apply_chat_template(ex["prompt"], FALSE))) ELSE 0)
      + Len(TurnIds(ex[col], target_max_len))

\* Row r of the pass over col compiled the context of its example.
PromptIncluded(org, r) == \E i \in 1..Len(org[r]) : org[r][i].src = "prompt"

\* The three fields of d under prefix p are rectangular, of one shape: a row
\* per example, as wide as the longest sequence compiled from column col.
Rectangular(d, p, col, org) ==
    LET lens == [r \in 1..Len(instances) |->
                    CompiledLen(instances[r], col, PromptIncluded(org, r))]
    IN \E width \in {lens[r] : r \in 1..Len(instances)} :
          /\ \A r \in 1..Len(instances) : lens[r] <= width
          /\ \A k \in {"input_ids", "attention_mask", "labels"} :
                /\ (p \o k) \in DOMAIN d
                /\ Len(d[p \o k]) = Len(instances)
                /\ \A r \in 1..Len(instances) : Len(d[p \o k][r]) = width

\* C19: every field of a batch is rectangular, as wide as the longest
\* compiled sequence of the batch whatever target_max_len is; in a mixture
\* batch the width of the 'stage1_' fields is given by the 'stage1_conv'
\* columns alone and the width of the unprefixed fields by the
\* 'stage2_conv' columns alone; the three fields of a stage have one shape.
C19_Rectangular ==
    /\ (pc = "returned" /\ collator = "single") =>
          /\ Len(ret_origin["labels"]) = Len(instances)
          /\ Rectangular(ret, "", "conv", ret_origin["labels"])
    /\ (pc = "returned" /\ collator = "mixture") =>
          /\ Rectangular(ret, "stage1_", "stage1_conv",
                         [r \in 1..Len(instances) |-> <<>>])
          /\ Rectangular(ret, "", "stage2_conv", [r \in 1..Len(instances) |-> <<>>])
    /\ (collator = "mixture" /\ input_column_name = "stage1_conv") =>
          Rectangular(stage2_dict, "", "stage2_conv", [r \in 1..Len(instances) |-> <<>>])

\* A returned mixture batch of two examples: each stage has rows compiled to
\* different lengths, the stages have different widths, and a width exceeds
\* target_max_len.
C19_Witness ==
    /\ pc = "returned" /\ collator = "mixture"
    /\ Len(instances) = 2
    /\ CompiledLen(instances[1], "stage1_conv", FALSE)
          # CompiledLen(instances[2], "stage1_conv", FALSE)
    /\ CompiledLen(instances[1], "stage2_conv", FALSE)
          # CompiledLen(instances[2], "stage2_conv", FALSE)
    /\ Len(ret["stage1_input_ids"][1]) # Len(ret["input_ids"][1])
    /\ Len(ret["input_ids"][1]) > target_max_len

\* ===================================================================
\* The context gate of DataCollatorForMultiTurnCausalLM
\* ===================================================================
\* The labels the turns of conv contribute, in order.
RECURSIVE TurnLabels(_, _)
TurnLabels(conv, max_length) ==
    IF conv = <<>> THEN <<>>
    ELSE (IF Head(conv).role = "user"
          THEN Ignored(Len(Rest(apply_chat_template(<<Head(conv)>>, TRUE))))
          ELSE EncodeTarget(Head(conv).content, max_length))
         \o TurnLabels(Tail(conv), max_length)

\* The sequence of ex with its context included whole, or left out whole.
Compiled(ex, with_prompt) ==
    LET P == IF with_prompt THEN Rest(apply_chat_template(ex["prompt"], FALSE)) ELSE <<>>
        ids == <<bos_token_id>> \o P \o TurnIds(ex["conv"], target_max_len)
    IN [ids |-> ids,
        mask |-> Ones(Len(ids)),
        labs |-> <<IGNORE_INDEX>> \o Ignored(Len(P))
                    \o TurnLabels(ex["conv"], target_max_len)]

\* padded is the sequence want followed by copies of pad only.
PadsOf(padded, want, pad) ==
    /\ Len(padded) >= Len(want)
    /\ \A j \in 1..Len(padded) : padded[j] = IF j <= Len(want) THEN want[j] ELSE pad

\* Row r of the returned batch is the sequence c, padded.
RowIs(r, c) ==
    /\ PadsOf(ret["input_ids"][r], c.ids, PadToken(tokenizer))
    /\ PadsOf(ret["attention_mask"][r], c.mask, 0)
    /\ PadsOf(ret["labels"][r], c.labs, IGNORE_INDEX)

\* C20: in the single-stage collator, with W_PROMPT_RANDOMIZE unset every
\* row of an example with 'prompt' holds its context, so the batch is a
\* function of the examples; with the flag set each row holds the context of
\* its example whole or not at all, row by row; either way the row starts
\* with BOS, its three fields are aligned, the context is not supervised and
\* the turns are labelled as without a context.
C20_ContextGate ==
    (pc = "returned" /\ collator = "single") =>
        /\ {"input_ids", "attention_mask", "labels"} \subseteq DOMAIN ret
        /\ \A k \in {"input_ids", "attention_mask", "labels"} :
              Len(ret[k]) = Len(instances)
        /\ \A r \in 1..Len(instances) :
              LET ex == instances[r]
              IN /\ "prompt" \notin DOMAIN ex => RowIs(r, Compiled(ex, FALSE))
                 /\ ("prompt" \in DOMAIN ex /\ ~W_PROMPT_RANDOMIZE) =>
                        RowIs(r, Compiled(ex, TRUE))
                 /\ ("prompt" \in DOMAIN ex /\ W_PROMPT_RANDOMIZE) =>
                        RowIs(r, Compiled(ex, TRUE)) \/ RowIs(r, Compiled(ex, FALSE))
                 /\ ret["input_ids"][r][1] = bos_token_id
                 /\ ret["labels"][r][1] = IGNORE_INDEX
                 /\ Len(ret["input_ids"][r]) = Len(ret["labels"][r])
                 /\ Len(ret["input_ids"][r]) = Len(ret["attention_mask"][r])
        /\ \A v \in DictViews(ret, ret_origin) :
              BosFirst(v) /\ Aligned(v)
                  /\ \A i \in 1..Len(v.org) :
                        /\ v.org[i].role = "assistant" <=> v.labs[i] # IGNORE_INDEX
                        /\ v.org[i].role = "assistant" => v.labs[i] = v.ids[i]

\* With the flag set, a returned batch of two examples with the same
\* context: one row holds it, the other does not.
C20_Witness ==
    /\ pc = "returned" /\ collator = "single"
    /\ W_PROMPT_RANDOMIZE
    /\ Len(instances) = 2
    /\ instances[1] = instances[2]
    /\ "prompt" \in DOMAIN instances[1]
    /\ instances[1]["prompt"] # <<>>
    /\ RowIs(1, Compiled(instances[1], TRUE))
    /\ RowIs(2, Compiled(instances[2], FALSE))

\* ===================================================================
\* make_data_module: the datasets handed to the collators
\* ===================================================================
\* A text is a sequence of pieces: the two delimiters, the marker, a blank
\* and words.
MaxContextLen == 3      \* pieces of a context text
MaxTeacherTurns == 2    \* turns of a teacher conversation

END_CONVERSATION_TOKEN == "[END_CONVERSATION]"
Delimiters == {"<USER>:", "<AGENT>:"}
Blank == " "

RECURSIVE TextsUpTo(_, _)
TextsUpTo(alphabet, n) ==
    IF n = 0 THEN {<<>>}
    ELSE LET shorter == TextsUpTo(alphabet, n - 1)
         IN shorter \cup {<<a>> \o t : a \in alphabet, t \in {u \in shorter : Len(u) = n - 1}}

ContextTexts == TextsUpTo(Delimiters \cup {Blank, "a"}, MaxContextLen)

TeacherTurns ==
    [role : {"user", "assistant"},
     content : {<<"ok">>, <<"bye", Blank, END_CONVERSATION_TOKEN>>}]

TeacherConvs == UNION {[1..n -> TeacherTurns] : n \in 0..MaxTeacherTurns}

PseudoInputs == {<<"task">>}

\* Texts get_student_input_prompt may return: its body is not in finetune.py.
StudentPrompts == {<<Blank, "solve", Blank>>, <<"solve", Blank, "it">>}

PlainContext == <<"<USER>:", "a", "<AGENT>:">> \o <<"a">>
PlainTeacher == <<[role |-> "assistant", content |-> <<"ok">>]>>

\* Records of mydataset.ds: every context with a few teacher conversations,
\* every teacher conversation with one context.
Records ==
    {[context |-> c, teacher_output_conv |-> t, pseudo_input |-> q] :
        c \in ContextTexts,
        t \in {<<>>, PlainTeacher,
               <<[role |-> "user", content |-> <<"bye", Blank, END_CONVERSATION_TOKEN>>]>>},
        q \in PseudoInputs}
      \cup {[context |-> PlainContext, teacher_output_conv |-> t, pseudo_input |-> q] :
                t \in TeacherConvs, q \in PseudoInputs}

PlainRecord ==
    [context |-> PlainContext, teacher_output_conv |-> PlainTeacher,
     pseudo_input |-> <<"task">>]

\* mydataset.ds: one record, alone or after a plain one.
Datasets == {<<r>> : r \in Records} \cup {<<PlainRecord, r>> : r \in Records}

DatasetFormats ==
    {"cot-stage1_conv_stage2_joint_loss", "conv-stage2", "conv-stage2_w_prompt", "other"}

\* ------------------------------------------------------------ str and re
IsDelimiter(piece) == piece \in Delimiters

\* re.split(r"<USER>:|<AGENT>:", text): the texts between the delimiters,
\* the empty ones included.
RECURSIVE re_split(_)
re_split(text) ==
    IF \A i \in 1..Len(text) : ~IsDelimiter(text[i]) THEN <<text>>
    ELSE LET i == CHOOSE k \in 1..Len(text) :
                      IsDelimiter(text[k]) /\ \A j \in 1..(k - 1) : ~IsDelimiter(text[j])
         IN <<SubSeq(text, 1, i - 1)>> \o re_split(SubSeq(text, i + 1, Len(text)))

\* str.strip(): leading and trailing blanks removed.
RECURSIVE lstrip(_)
lstrip(text) ==
    IF text # <<>> /\ Head(text) = Blank THEN lstrip(Tail(text)) ELSE text

RECURSIVE rstrip(_)
rstrip(text) ==
    IF text # <<>> /\ text[Len(text)] = Blank
    THEN rstrip(SubSeq(text, 1, Len(text) - 1)) ELSE text

strip(text) == rstrip(lstrip(text))

\* END_CONVERSATION_TOKEN in content
Contains(content, token) == \E i \in 1..Len(content) : content[i] = token

Raised(exception) == [raised |-> exception]
Value(v) == [raised |-> "none", value |-> v]

\* _conv_list of lines 746-748: split, strip every turn, drop the empty ones.
conv_list(context) ==
    LET pieces == re_split(context)
        stripped == [i \in 1..Len(pieces) |-> strip(pieces[i])]
    IN SelectSeq(stripped, LAMBDA turn : turn # <<>>)

\* if context_history[-1]['role'] == 'user': context_history = context_history[:-1]
DropDangling(context_history) ==
    IF context_history = <<>> THEN Raised("IndexError")
    ELSE IF context_history[Len(context_history)].role = "user"
    THEN Value(SubSeq(context_history, 1, Len(context_history) - 1))
    ELSE Value(context_history)

\* context_history of lines 749-751 for the context text of one record.
ContextHistory(context) ==
    LET turns == conv_list(context)
        context_history ==
            [i \in 1..Len(turns) |->
                IF (i - 1) % 2 = 0 THEN [role |-> "user", content |-> turns[i]]
                                   ELSE [role |-> "assistant", content |-> turns[i]]]
    IN DropDangling(context_history)

\* Variant: the marker turn is kept.
TeacherOutputKept(teacher_output_conv) ==
    IF teacher_output_conv = <<>> THEN Raised("IndexError")
    ELSE Value(teacher_output_conv)

\* teacher_output of lines 696-698, 722-724, 755-757.
TeacherOutput(teacher_output_conv) ==
    IF teacher_output_conv = <<>> THEN Raised("IndexError")
    ELSE LET last == teacher_output_conv[Len(teacher_output_conv)]
         IN IF last.role = "user" /\ Contains(last.content, END_CONVERSATION_TOKEN)
            THEN Value(SubSeq(teacher_output_conv, 1, Len(teacher_output_conv) - 1))
            ELSE Value(teacher_output_conv)

\* mydataset.get_student_input_prompt(input=ex['pseudo_input'])
get_student_input_prompt(input) == mydataset.student_input_prompt[input]

\* instance_conv of the stage-B loops; stripped is the .strip() of line 761.
InstanceConv(ex, stripped) ==
    LET teacher_output == TeacherOutput(ex.teacher_output_conv)
        prompt == get_student_input_prompt(ex.pseudo_input)
    IN IF teacher_output.raised # "none" THEN teacher_output
       ELSE Value(<<[role |-> "user",
                     content |-> IF stripped THEN strip(prompt) ELSE prompt]>>
                  \o teacher_output.value)

\* instance_conv of the stage-1 loop: the two meta-cognition prompts, whose
\* bodies are not in finetune.py, stand as texts naming the record.
Stage1InstanceConv(ex) ==
    <<[role |-> "user", content |-> <<"meta_cognition_input">> \o ex.pseudo_input],
      [role |-> "assistant", content |-> <<"meta_cognition_output">> \o ex.context]>>

\* The exception of the first record of ds[1..n] that raises one in f, or "none".
RECURSIVE FirstRaised(_, _)
FirstRaised(outs, i) ==
    IF i > Len(outs) THEN "none"
    ELSE IF outs[i].raised # "none" THEN outs[i].raised
    ELSE FirstRaised(outs, i + 1)

Values(outs) == [i \in 1..Len(outs) |-> outs[i].value]

RowOrders(n) == {f \in [1..n -> 1..n] : \A i, j \in 1..n : f[i] = f[j] => i = j}

\* dataset['train'].shuffle(seed=42): one permutation for all columns.
Shuffled(columns, perm) ==
    [k \in DOMAIN columns |-> [i \in 1..Len(columns[k]) |-> columns[k][perm[i]]]]

\* The loops ended with the exception e, or built the columns.
Built(e, columns) ==
    IF e # "none"
    THEN /\ data_raised' = e
         /\ dataset' = NoDict
    ELSE /\ data_raised' = "none"
         /\ \E perm \in RowOrders(Len(mydataset.ds)) : dataset' = Shuffled(columns, perm)

DataModuleIdle == dataset = NoDict /\ data_raised = "none"

\* args.dataset_format == 'cot-stage1_conv_stage2_joint_loss'
JointLossFormat ==
    /\ DataModuleIdle
    /\ dataset_format = "cot-stage1_conv_stage2_joint_loss"
    /\ LET ds == mydataset.ds
           stage1_conv == [i \in 1..Len(ds) |-> Stage1InstanceConv(ds[i])]
           outs == [i \in 1..Len(ds) |-> InstanceConv(ds[i], FALSE)]
       IN Built(FirstRaised(outs, 1),
                [stage1_conv |-> stage1_conv,
                 stage2_conv |-> IF FirstRaised(outs, 1) = "none" THEN Values(outs)
                                                                 ELSE <<>>])
    /\ UNCHANGED <<cvars, tvars, dataset_format, mydataset>>

\* args.dataset_format == 'conv-stage2'
ConvStage2Format ==
    /\ DataModuleIdle
    /\ dataset_format = "conv-stage2"
    /\ LET ds == mydataset.ds
           outs == [i \in 1..Len(ds) |-> InstanceConv(ds[i], FALSE)]
       IN Built(FirstRaised(outs, 1),
                [conv |-> IF FirstRaised(outs, 1) = "none" THEN Values(outs) ELSE <<>>])
    /\ UNCHANGED <<cvars, tvars, dataset_format, mydataset>>

\* One record of the 'conv-stage2_w_prompt' loop: its context history, then
\* its conversation.
PromptAndConv(ex) ==
    LET context_history == ContextHistory(ex.context)
        instance_conv == InstanceConv(ex, TRUE)
    IN IF context_history.raised # "none" THEN context_history
       ELSE IF instance_conv.raised # "none" THEN instance_conv
       ELSE Value([prompt |-> context_history.value, conv |-> instance_conv.value])

\* args.dataset_format == 'conv-stage2_w_prompt'
ConvStage2WPromptFormat ==
    /\ DataModuleIdle
    /\ dataset_format = "conv-stage2_w_prompt"
    /\ LET ds == mydataset.ds
           outs == [i \in 1..Len(ds) |-> PromptAndConv(ds[i])]
           ok == FirstRaised(outs, 1) = "none"
       IN Built(FirstRaised(outs, 1),
                [prompt |-> IF ok THEN [i \in 1..Len(ds) |-> outs[i].value.prompt] ELSE <<>>,
                 conv |-> IF ok THEN [i \in 1..Len(ds) |-> outs[i].value.conv] ELSE <<>>])
    /\ UNCHANGED <<cvars, tvars, dataset_format, mydataset>>

\* else: raise NotImplementedError()
OtherFormat ==
    /\ DataModuleIdle
    /\ dataset_format \notin {"cot-stage1_conv_stage2_joint_loss", "conv-stage2",
                              "conv-stage2_w_prompt"}
    /\ data_raised' = "NotImplementedError"
    /\ UNCHANGED <<cvars, tvars, dataset_format, mydataset, dataset>>

InitDataModule ==
    /\ dataset_format \in DatasetFormats
    /\ mydataset \in [ds : Datasets, student_input_prompt : [PseudoInputs -> StudentPrompts]]
    /\ dataset = NoDict
    /\ data_raised = "none"
    /\ W_PROMPT_RANDOMIZE = FALSE
    /\ tokenizer = [has_pad_token |-> TRUE]
    /\ target_max_len \in TargetMaxLens
    /\ CollatorStart
    /\ stage2_ratio = <<1, 2>>
    /\ TrainerStart

NextDataModule ==
    \/ JointLossFormat
    \/ ConvStage2Format
    \/ ConvStage2WPromptFormat
    \/ OtherFormat

SpecDataModule == InitDataModule /\ [][NextDataModule]_vars

\* ===================================================================
\* Properties of make_data_module (checked under SpecDataModule)
\* ===================================================================
DataModuleDone == dataset # NoDict \/ data_raised # "none"

\* The turns alternate user, assistant, user, ..., starting with user.
Alternates(history) ==
    \A i \in 1..Len(history) :
        history[i].role = IF i % 2 = 1 THEN "user" ELSE "assistant"

\* The last turn is an assistant turn, or there is no turn.
EndsWithAssistant(history) ==
    history = <<>> \/ history[Len(history)].role = "assistant"

\* C21: for every record of the 'conv-stage2_w_prompt' format, whatever its
\* context text (one turn and no turn included), make_data_module builds a
\* context history that alternates user, assistant, ... from user on and,
\* after the dangling-turn rule, ends with an assistant turn or is empty.
C21_ContextAlternates ==
    (/\ dataset_format = "conv-stage2_w_prompt"
     /\ DataModuleDone
     /\ \A i \in 1..Len(mydataset.ds) : mydataset.ds[i].teacher_output_conv # <<>>) =>
        /\ data_raised = "none"
        /\ "prompt" \in DOMAIN dataset
        /\ Len(dataset["prompt"]) = Len(mydataset.ds)
        /\ \A i \in 1..Len(dataset["prompt"]) :
              Alternates(dataset["prompt"][i]) /\ EndsWithAssistant(dataset["prompt"][i])

StageBFormats == {"cot-stage1_conv_stage2_joint_loss", "conv-stage2", "conv-stage2_w_prompt"}

\* The column of the built dataset that holds the stage-B conversations.
StageBColumn ==
    IF dataset_format = "cot-stage1_conv_stage2_joint_loss" THEN "stage2_conv" ELSE "conv"

\* The turn is a user turn whose content holds the marker.
MarkerTurn(turn) ==
    /\ turn.role = "user"
    /\ \E j \in 1..Len(turn.content) : turn.content[j] = "[END_CONVERSATION]"

\* conv is the student-input user turn followed by the turns of the teacher
\* conversation of ex in their order, all of them, or all but the last when
\* the last is a user turn with the marker.
StudentThenTeacher(conv, ex) ==
    LET teacher == ex.teacher_output_conv
        n == Len(teacher)
        kept == IF n > 0 /\ MarkerTurn(teacher[n]) THEN n - 1 ELSE n
    IN /\ Len(conv) = 1 + kept
       /\ conv[1].role = "user"
       /\ conv[1].content =
             IF dataset_format = "conv-stage2_w_prompt"
             THEN strip(mydataset.student_input_prompt[ex.pseudo_input])
             ELSE mydataset.student_input_prompt[ex.pseudo_input]
       /\ \A j \in 1..kept : conv[1 + j] = teacher[j]

\* conv kept every turn of the teacher conversation of ex.
KeptAll(conv, ex) == Len(conv) = 1 + Len(ex.teacher_output_conv)

\* Every row of the stage-B column is built from its own record.
StageBBuilt ==
    /\ StageBColumn \in DOMAIN dataset
    /\ Len(dataset[StageBColumn]) = Len(mydataset.ds)
    /\ \E perm \in RowOrders(Len(mydataset.ds)) :
          \A i \in 1..Len(mydataset.ds) :
              LET conv == dataset[StageBColumn][i]
                  ex == mydataset.ds[perm[i]]
              IN /\ StudentThenTeacher(conv, ex)
                 /\ KeptAll(conv, ex) => ~MarkerTurn(conv[Len(conv)])

\* C22 as stated: in the three formats the closing user turn with the marker
\* is removed, the other turns are kept in order after the student-input
\* turn, and so no stage-B conversation ends with a turn holding the marker.
C22_NoMarkerLast ==
    (dataset_format \in StageBFormats /\ dataset # NoDict) =>
        /\ StageBBuilt
        /\ \A i \in 1..Len(dataset[StageBColumn]) :
              LET conv == dataset[StageBColumn][i]
              IN ~Contains(conv[Len(conv)].content, END_CONVERSATION_TOKEN)

\* C22, amended: in the three formats every stage-B conversation of a built
\* dataset is the student-input user turn followed by the turns of its
\* teacher conversation, in order, without the last one when that is a user
\* turn holding the marker; no other turn is removed. A conversation that
\* kept all turns of its teacher conversation does not end with a user turn
\* holding the marker; one that lost the closing turn may, as may one ending
\* with an assistant turn that holds the marker.
C22_MarkerTurnStripped ==
    (dataset_format \in StageBFormats /\ dataset # NoDict) =>
        /\ data_raised = "none"
        /\ StageBBuilt
        /\ \A i \in 1..Len(mydataset.ds) :
              /\ mydataset.ds[i].teacher_output_conv # <<>>
              /\ Len(dataset[StageBColumn][i]) >= 1

\* A dataset of two records built in the 'conv-stage2_w_prompt' format: a
\* teacher conversation of two turns lost its closing marker turn, and the
\* student-input turn was stripped.
C22_Witness ==
    /\ dataset_format = "conv-stage2_w_prompt"
    /\ dataset # NoDict
    /\ Len(mydataset.ds) = 2
    /\ \E r \in 1..2 :
          /\ Len(mydataset.ds[r].teacher_output_conv) = 2
          /\ MarkerTurn(mydataset.ds[r].teacher_output_conv[2])
          /\ \E i \in 1..2 :
                /\ Len(dataset["conv"][i]) = 2
                /\ dataset["conv"][i][2] = mydataset.ds[r].teacher_output_conv[1]
                /\ dataset["conv"][i][1].content
                      # mydataset.student_input_prompt[mydataset.ds[r].pseudo_input]

====
